---- MODULE Spec2Model ----
(***************************************************************************)
(* Incremental remote deployment: deploy_smart.py (one SFTP call per file) *)
(* and deploy_rsync.py (batched ssh rm and one rsync transfer).            *)
(*                                                                         *)
(* A run of main() is a process that moves through the remote calls of     *)
(* the script in program order; every remote call is one step and may      *)
(* succeed or fail.  The remote target (files, directories, manifest       *)
(* blob) is shared by all runs; each run has its own local build tree.     *)
(***************************************************************************)
EXTENDS Integers, Sequences, FiniteSets, TLC

VARIABLES
  localTree,     \* per process: the local directory build/server
  environ,       \* per process: the settings its environment defines
  manifest,      \* the blob at REMOTE_BASE_DIR/deploy_manifest.json
  remoteFiles,   \* the other files under REMOTE_BASE_DIR: path -> content
  remoteDirs,    \* the remote directories that exist
  run,           \* per process: the locals of main() and its position
  everRecorded,  \* history: every key of every manifest a run has written
  last,          \* history: how the previous run ended
  clock,         \* time.time(), in seconds
  callback,      \* the closure of create_progress_callback
  progress,      \* history: the last call of the callback and the lines so far
  dircall        \* history: the last call of ensure_remote_dir taken alone

vars ==
  <<localTree, environ, manifest, remoteFiles, remoteDirs, run, everRecorded,
    last, clock, callback, progress, dircall>>

(***************************************************************************)
(* Bounds and the universe of inputs                                       *)
(***************************************************************************)
MaxBulk == 101

MaxClock == 14

MaxBytes == 2

Procs == {1, 2}

MANIFEST_FILENAME == "deploy_manifest.json"

batch_size == 50

\* the environment variables main() needs; SFTP_PORT has a default
Settings == {"SFTP_HOST", "SFTP_USER", "SFTP_PASS", "TARGET_DIR"}

\* TARGET_DIR, split at "/": the run is configured with /srv/mc
REMOTE_BASE_DIR == <<"srv", "mc">>

NamedPaths == {"a.txt", "b.txt", "c.txt"}

\* a file placed on the remote target by somebody else
ForeignPath == "world.dat"

\* a file in a subdirectory, and a file named as that subdirectory
NestedPath == "mods/x.jar"

BlockingPath == "mods"

BulkPath(n) == "f" \o ToString(n)

BulkPaths == {BulkPath(n) : n \in 1..MaxBulk}

\* The order in which os.walk lists the files of a tree; a dict keeps the
\* insertion order, so every mapping built from a walk iterates in it.
WalkOrder ==
  <<"a.txt", "b.txt", "c.txt", MANIFEST_FILENAME, ForeignPath, BlockingPath,
    NestedPath>>
    \o [n \in 1..MaxBulk |-> BulkPath(n)]

Info(h, s) == [hash |-> h, size |-> s]

\* the contents a file may have: a.txt comes in three versions, two of
\* them with the same hash and different sizes
AllowedInfo(path) ==
  CASE path = "a.txt" -> {Info("h1", 10), Info("h2", 10), Info("h1", 20)}
    [] path = "b.txt" -> {Info("h2", 10)}
    [] path = "c.txt" -> {Info("h3", 10)}
    [] path = MANIFEST_FILENAME -> {Info("hm", 10)}
    [] OTHER -> {Info("hb", 10)}

AllInfos ==
  UNION {AllowedInfo(q) : q \in NamedPaths \cup {MANIFEST_FILENAME, ForeignPath}}

EmptyMap == [q \in {} |-> Info("h1", 10)]

LocalPaths == NamedPaths \cup {MANIFEST_FILENAME}

\* every mapping of the paths S to contents they may have
FileMapsOver(S) ==
  UNION {{f \in [T -> AllInfos] : \A q \in T : f[q] \in AllowedInfo(q)}
           : T \in SUBSET S}

\* build/server: absent, or a directory holding some regular files
NoTree == [exists |-> FALSE, files |-> EmptyMap]

Tree(files) == [exists |-> TRUE, files |-> files]

\* the files S, a.txt (if among them) with the content a
Build(S, a) ==
  Tree([q \in S |-> IF q = "a.txt" THEN a
                    ELSE CHOOSE x \in AllowedInfo(q) : TRUE])

\* The builds that follow one another in a sequence of runs: no build
\* directory, a build of one file, an old and a new build that differ by
\* one file added and one removed, a build with a.txt of another size and
\* the same hash, and one with a.txt changed and a stray
\* deploy_manifest.json.
Trees ==
  {NoTree,
   Build({"b.txt"}, Info("h1", 10)),
   Build({"a.txt", "c.txt"}, Info("h1", 10)),
   Build({"a.txt", "b.txt"}, Info("h1", 10)),
   Build({"a.txt", "b.txt"}, Info("h1", 20)),
   Build({"a.txt", "b.txt", MANIFEST_FILENAME}, Info("h2", 10))}

\* every tree over the named paths, for the plan taken alone
PlanTrees == {NoTree} \cup {Tree(f) : f \in FileMapsOver(LocalPaths)}

(***************************************************************************)
(* Mappings and sequences                                                  *)
(***************************************************************************)
Iter(S) == SelectSeq(WalkOrder, LAMBDA q : q \in S)

Range(s) == {s[k] : k \in 1..Len(s)}

Without(f, S) == [q \in (DOMAIN f) \ S |-> f[q]]

Put(f, q, v) == [x \in (DOMAIN f) \cup {q} |-> IF x = q THEN v ELSE f[x]]

Min(a, b) == IF a < b THEN a ELSE b

\* seq[i:j] of Python, i and j counted from 0
Slice(seq, i, j) == SubSeq(seq, i + 1, Min(j, Len(seq)))

(***************************************************************************)
(* The manifest blob and what json.load makes of it                        *)
(***************************************************************************)
\* kind "absent": no such remote file; "garbage": bytes that are no JSON
\* document (a truncated write, a foreign file); "map": the JSON object
\* json.dump wrote; "badmap": a JSON object whose values are no
\* {hash, size} objects; "list": a JSON array of strings.
Blob(k, m) == [kind |-> k, m |-> m]

AbsentBlob == Blob("absent", EmptyMap)

GarbageBlob == Blob("garbage", EmptyMap)

\* a dump that writes an empty object
json_dump_nothing(state) == Blob("map", EmptyMap)

\* json.dump(local_state, f)
json_dump(state) == Blob("map", state)

\* A Python value: a dict (vals_ok: every value is a {hash, size} dict) or
\* a list, m giving the keys (the elements of a list).
PyDict(m) == [type |-> "dict", m |-> m, vals_ok |-> TRUE]

\* json.load / json.loads: err stands for json.JSONDecodeError
json_load(blob) ==
  CASE blob.kind = "map" -> [err |-> FALSE, value |-> PyDict(blob.m)]
    [] blob.kind = "badmap" ->
         [err |-> FALSE,
          value |-> [type |-> "dict", m |-> blob.m, vals_ok |-> FALSE]]
    [] blob.kind = "list" ->
         [err |-> FALSE,
          value |-> [type |-> "list", m |-> blob.m, vals_ok |-> FALSE]]
    [] OTHER -> [err |-> TRUE, value |-> PyDict(EmptyMap)]

\* "x in remote_state" and "for x in remote_state"
PyKeys(value) == DOMAIN value.m

\* remote_state[rel_path]['hash'] raises TypeError or KeyError unless
\* remote_state is a dict of {hash, size} dicts
HashLookupRaises(value) == value.type # "dict" \/ ~value.vals_ok

(***************************************************************************)
(* The pure parts of the two scripts                                       *)
(***************************************************************************)
\* a scan that does not skip the manifest file
get_local_files_info_unskipped(tree) == tree.files

\* deploy_smart.get_local_files_info: os.walk of a directory that does not
\* exist yields nothing, so the result is the empty dict
smart_get_local_files_info(tree) == Without(tree.files, {MANIFEST_FILENAME})

\* deploy_rsync.get_local_files_info: exits when base_dir does not exist
rsync_get_local_files_info(tree) ==
  [exit |-> ~tree.exists,
   files_info |-> Without(tree.files, {MANIFEST_FILENAME})]

\* a planning loop with the hash test the wrong way round
need_upload_equal(rel_path, info, remote_state, force_full) ==
  IF rel_path \notin PyKeys(remote_state) THEN TRUE
  ELSE IF force_full THEN TRUE
  ELSE remote_state.m[rel_path].hash = info.hash

\* a planning loop that also compares the sizes
need_upload_size(rel_path, info, remote_state, force_full) ==
  IF rel_path \notin PyKeys(remote_state) THEN TRUE
  ELSE IF force_full THEN TRUE
  ELSE remote_state.m[rel_path] # info

\* the body of the planning loop of deploy_smart.main for one local file
need_upload(rel_path, info, remote_state, force_full) ==
  IF rel_path \notin PyKeys(remote_state) THEN TRUE
  ELSE IF force_full THEN TRUE
  ELSE remote_state.m[rel_path].hash # info.hash

\* the planning loop reaches remote_state[rel_path]['hash'] and that raises
plan_raises(local_state, remote_state, force_full) ==
  /\ ~force_full
  /\ HashLookupRaises(remote_state)
  /\ \E q \in DOMAIN local_state : q \in PyKeys(remote_state)

smart_files_to_upload(local_state, remote_state, force_full) ==
  SelectSeq(Iter(DOMAIN local_state),
            LAMBDA q : need_upload(q, local_state[q], remote_state, force_full))

\* a planning loop that forgets the test against local_state
smart_files_to_delete_all(local_state, remote_state) ==
  Iter(PyKeys(remote_state))

smart_files_to_delete(local_state, remote_state) ==
  SelectSeq(Iter(PyKeys(remote_state)), LAMBDA q : q \notin DOMAIN local_state)

rsync_files_to_delete(local_state, remote_state) ==
  SelectSeq(Iter(PyKeys(remote_state)), LAMBDA q : q \notin DOMAIN local_state)

\* batches that overlap by one path
rm_batch_overlap(files_to_delete, i) ==
  Slice(files_to_delete, i, i + batch_size + 1)

\* batch = files_to_delete[i:i+batch_size]
rm_batch(files_to_delete, i) == Slice(files_to_delete, i, i + batch_size)

\* rel_path.split('/'): one path of the model has a directory part
Split(rel_path) ==
  IF rel_path = NestedPath THEN <<"mods", "x.jar">> ELSE <<rel_path>>

\* f"{REMOTE_BASE_DIR}/{rel_path}", as the names from the root downwards
remote_path_of(rel_path) == REMOTE_BASE_DIR \o Split(rel_path)

\* os.path.dirname(f"{REMOTE_BASE_DIR}/{rel_path}")
remote_dir_of(rel_path) ==
  REMOTE_BASE_DIR \o SubSeq(Split(rel_path), 1, Len(Split(rel_path)) - 1)

Prefixes(path) == [k \in 1..Len(path) |-> SubSeq(path, 1, k)]

\* the dir_part values the loop does not skip
Parts(remote_path) == SelectSeq(remote_path, LAMBDA part : part # "")

\* ensure_remote_dir(sftp, remote_path), remote_path given as
\* remote_path.split('/'): the paths it calls sftp.mkdir for, in order.
\* current_path starts with "/" whatever remote_path starts with; found is
\* what sftp.stat succeeds on, directories and files alike.
ensure_remote_dir(found, remote_path) ==
  SelectSeq(Prefixes(Parts(remote_path)), LAMBDA d : d \notin found)

(***************************************************************************)
(* The progress callback of an upload                                      *)
(***************************************************************************)
\* the closure: start_time and the nonlocal last_log_time
create_progress_callback(now) == [start_time |-> now, last_log_time |-> now]

\* a / b of Python, which raises ZeroDivisionError when b is 0
Quotient(a, b) == [err |-> b = 0, v |-> IF b = 0 THEN 0 ELSE a \div b]

\* a callback that does not store the time of the line it logs
progress_callback_forgetful(cb, current_time, transferred, total) ==
  LET log == current_time - cb.last_log_time > 5 \/ transferred = total
  IN  [emitted |-> log, raised |-> FALSE, cb |-> cb]

\* one call progress_callback(transferred, total) at current_time: whether
\* it logs a line, whether it raises, and the closure afterwards
progress_callback(cb, current_time, transferred, total) ==
  LET log == current_time - cb.last_log_time > 5 \/ transferred = total
      percentage == IF total > 0 THEN Quotient(transferred * 100, total)
                    ELSE Quotient(0, 1)
      elapsed == current_time - cb.start_time
      speed == IF elapsed > 0 THEN Quotient(transferred, elapsed)
               ELSE Quotient(0, 1)
      raised == log /\ (percentage.err \/ speed.err)
  IN  [emitted |-> log /\ ~raised, raised |-> raised,
       cb |-> IF log /\ ~raised THEN [cb EXCEPT !.last_log_time = current_time]
              ELSE cb]

\* no call yet: the callback was created at time now and no line is out
NoCalls(now) ==
  [calls |-> 0, at |-> now, transferred |-> 0, total |-> 0,
   emitted |-> FALSE, raised |-> FALSE,
   prevLine |-> now, prevPlain |-> -1, lastLine |-> now, lastPlain |-> -1]

\* ensure_remote_dir has not been called on its own
NoDirCall ==
  [path |-> <<>>, before |-> {}, made |-> <<>>, after |-> {},
   returned |-> FALSE, again |-> FALSE]

\* no upload is under way
NoTransfer ==
  /\ clock = 0
  /\ callback = create_progress_callback(0)
  /\ progress = NoCalls(0)

\* time passes
Tick ==
  /\ clock < MaxClock
  /\ \E d \in 1..6 : d <= MaxClock - clock /\ clock' = clock + d
  /\ UNCHANGED <<localTree, environ, manifest, remoteFiles, remoteDirs, run,
                 everRecorded, last, callback, progress, dircall>>

\* sftp.put is given create_progress_callback(rel_path) for the next file
CreateCallback ==
  /\ callback' = create_progress_callback(clock)
  /\ progress' = NoCalls(clock)
  /\ UNCHANGED <<localTree, environ, manifest, remoteFiles, remoteDirs, run,
                 everRecorded, last, clock, dircall>>

\* paramiko calls the callback with the bytes sent so far and the size
ProgressCall ==
  /\ ~progress.raised
  /\ \E transferred \in 0..MaxBytes, total \in 0..MaxBytes :
       LET res == progress_callback(callback, clock, transferred, total)
           plain == res.emitted /\ transferred # total
       IN  /\ callback' = res.cb
           /\ progress' =
                [calls |-> 1, at |-> clock,
                 transferred |-> transferred, total |-> total,
                 emitted |-> res.emitted, raised |-> res.raised,
                 prevLine |-> progress.lastLine,
                 prevPlain |-> progress.lastPlain,
                 lastLine |-> IF res.emitted THEN clock ELSE progress.lastLine,
                 lastPlain |-> IF plain THEN clock ELSE progress.lastPlain]
  /\ UNCHANGED <<localTree, environ, manifest, remoteFiles, remoteDirs, run,
                 everRecorded, last, clock, dircall>>

(***************************************************************************)
(* A run of main(): its locals, its position and the remote calls issued   *)
(***************************************************************************)
IdleRun ==
  [pc |-> "idle", backend |-> "none", force_full |-> FALSE,
   local_state |-> EmptyMap, remote_state |-> PyDict(EmptyMap),
   files_to_upload |-> <<>>, files_to_delete |-> <<>>, i |-> 0,
   exit |-> -1, read_blob |-> AbsentBlob, pre_manifest |-> AbsentBlob,
   session |-> "none", ops |-> <<>>]

Running(p) == run[p].pc \notin {"idle", "done"}

\* one remote mutation a run has issued, and whether it succeeded
Op(op, paths, ok) == [op |-> op, paths |-> paths, ok |-> ok]

Logged(r, entries) == [r EXCEPT !.ops = @ \o entries]

\* sys.exit(code), an uncaught exception (code 1) or the end of main (code 0)
Exit(r, code) == [r EXCEPT !.pc = "done", !.exit = code]

Wrote(r) == \E k \in 1..Len(r.ops) : r.ops[k].op = "manifest" /\ r.ops[k].ok

\* the run that ended last: its process (0: none), its script, its exit
\* code, whether it wrote the manifest, and whether the local tree is still
\* the one it scanned
NoLast ==
  [by |-> 0, backend |-> "none", exit |-> -1, wrote |-> FALSE, same |-> FALSE]

LastAfter(p, r) ==
  IF r.pc = "done"
  THEN [by |-> p, backend |-> r.backend, exit |-> r.exit, wrote |-> Wrote(r),
        same |-> TRUE]
  ELSE last

\* what one step of run p leaves behind
Update(p, r, m, files, dirs, ever) ==
  /\ run' = [run EXCEPT ![p] = r]
  /\ manifest' = m
  /\ remoteFiles' = files
  /\ remoteDirs' = dirs
  /\ everRecorded' = ever
  /\ last' = LastAfter(p, r)
  /\ UNCHANGED <<localTree, environ, clock, callback, progress, dircall>>

\* A target nobody has deployed to: no manifest, and either no base
\* directory or a base directory holding a file of somebody else.
Init ==
  /\ localTree \in [Procs -> Trees]
  /\ localTree[2] = NoTree
  /\ environ = [p \in Procs |-> Settings]
  /\ manifest = AbsentBlob
  /\ \E base \in BOOLEAN :
       /\ remoteDirs = {<<"srv">>} \cup (IF base THEN {REMOTE_BASE_DIR} ELSE {})
       /\ remoteFiles = [q \in (IF base THEN {ForeignPath} ELSE {}) |-> "foreign"]
  /\ run = [p \in Procs |-> IdleRun]
  /\ everRecorded = {}
  /\ last = NoLast
  /\ NoTransfer
  /\ dircall = NoDirCall

\* the paths sftp.stat succeeds on: the directories and the files
Entries ==
  remoteDirs \cup {remote_path_of(q) : q \in DOMAIN remoteFiles}

\* The packaging stage rebuilds (or removes) build/server between two
\* runs; the process of the run before is gone by then.
ChangeLocal(p) ==
  /\ ~Running(p)
  /\ \E t \in Trees \ {localTree[p]} : localTree' = [localTree EXCEPT ![p] = t]
  /\ last' = [last EXCEPT !.same = FALSE]
  /\ run' = [run EXCEPT ![p] = IdleRun]
  /\ UNCHANGED <<environ, manifest, remoteFiles, remoteDirs, everRecorded,
                 clock, callback, progress, dircall>>

(***************************************************************************)
(* deploy_smart.main                                                       *)
(***************************************************************************)
\* the position after the plan, after the deletions and after the uploads
smart_after_uploads(r) == [r EXCEPT !.pc = "put_manifest", !.i = 0]

smart_after_deletes(r) ==
  IF r.files_to_upload # <<>>
  THEN [r EXCEPT !.pc = "upload", !.i = 0]
  ELSE smart_after_uploads(r)

\* a main that uploads before it deletes, and then forgets the deletions
smart_uploads_first(r) ==
  IF r.files_to_upload # <<>>
  THEN [r EXCEPT !.pc = "upload", !.i = 0]
  ELSE IF r.files_to_delete # <<>>
       THEN [r EXCEPT !.pc = "delete", !.i = 0]
       ELSE smart_after_uploads(r)

smart_after_plan(r) ==
  IF r.files_to_delete # <<>>
  THEN [r EXCEPT !.pc = "delete", !.i = 0]
  ELSE smart_after_deletes(r)

\* the process is started with FORCE_FULL set or not
StartSmart(p) ==
  /\ ~Running(p)
  /\ \E f \in BOOLEAN :
       Update(p, [IdleRun EXCEPT !.pc = "connect", !.backend = "smart",
                                 !.force_full = f, !.pre_manifest = manifest],
              manifest, remoteFiles, remoteDirs, everRecorded)

\* transport.connect, then the scan of the local tree.  main() does not
\* look at the settings before it connects; without a user or a password
\* the session is not authenticated and from_transport raises.
SmartConnect(p) ==
  /\ run[p].pc = "connect" /\ run[p].backend = "smart"
  /\ \E ok \in BOOLEAN :
       /\ ok => {"SFTP_USER", "SFTP_PASS"} \subseteq environ[p]
       /\ Update(p,
                 IF ok
                 THEN [run[p] EXCEPT
                         !.pc = "read_manifest", !.session = "up",
                         !.local_state = smart_get_local_files_info(localTree[p])]
                 ELSE Exit([run[p] EXCEPT !.session = "failed"], 1),
                 manifest, remoteFiles, remoteDirs, everRecorded)

\* the plan of deploy_smart.main from its local_state and remote_state
smart_plan(r) ==
  IF plan_raises(r.local_state, r.remote_state, r.force_full)
  THEN Exit(r, 1)
  ELSE smart_after_plan(
         [r EXCEPT
            !.files_to_upload =
               smart_files_to_upload(r.local_state, r.remote_state, r.force_full),
            !.files_to_delete =
               smart_files_to_delete(r.local_state, r.remote_state)])

\* remote_state after "with sftp.open(...) as f: remote_state = json.load(f)"
\* under "except (IOError, json.JSONDecodeError)"; opened: sftp.open succeeded
smart_remote_state(blob, opened) ==
  IF opened /\ ~json_load(blob).err THEN json_load(blob).value
  ELSE PyDict(EmptyMap)

\* sftp.open of the manifest, json.load, and the plan.  Without TARGET_DIR
\* the path is "None/deploy_manifest.json", which no target holds.
SmartReadManifest(p) ==
  /\ run[p].pc = "read_manifest" /\ run[p].backend = "smart"
  /\ \E opened \in BOOLEAN :
       /\ opened => manifest.kind # "absent" /\ "TARGET_DIR" \in environ[p]
       /\ Update(p,
                 smart_plan([run[p] EXCEPT
                               !.read_blob = IF opened THEN manifest ELSE AbsentBlob,
                               !.remote_state = smart_remote_state(manifest, opened)]),
                 manifest, remoteFiles, remoteDirs, everRecorded)

\* a deletion loop without the try/except: an IOError ends the run
SmartRemoveFatal(p) ==
  /\ run[p].pc = "delete" /\ run[p].backend = "smart"
  /\ LET r == run[p]
         path == r.files_to_delete[r.i + 1]
         next == LET r1 == Logged([r EXCEPT !.i = @ + 1],
                                  <<Op("remove", <<path>>, TRUE)>>)
                 IN  IF r1.i = Len(r.files_to_delete)
                     THEN smart_after_deletes(r1) ELSE r1
     IN \/ /\ path \in DOMAIN remoteFiles
           /\ Update(p, next, manifest, Without(remoteFiles, {path}),
                     remoteDirs, everRecorded)
        \/ Update(p, Exit(Logged(r, <<Op("remove", <<path>>, FALSE)>>), 1),
                  manifest, remoteFiles, remoteDirs, everRecorded)

\* one sftp.remove of the deletion loop; an IOError is logged and skipped
SmartRemove(p) ==
  /\ run[p].pc = "delete" /\ run[p].backend = "smart"
  /\ LET r == run[p]
         path == r.files_to_delete[r.i + 1]
         next(ok) == LET r1 == Logged([r EXCEPT !.i = @ + 1],
                                      <<Op("remove", <<path>>, ok)>>)
                     IN  IF r1.i = Len(r.files_to_delete)
                         THEN smart_after_deletes(r1) ELSE r1
     IN \E ok \in BOOLEAN :
          /\ ok => path \in DOMAIN remoteFiles
          /\ Update(p, next(ok), manifest,
                    IF ok THEN Without(remoteFiles, {path}) ELSE remoteFiles,
                    remoteDirs, everRecorded)

\* the mkdir calls of one ensure_remote_dir, the last of them failing or not
Mkdirs(missing, k, lastOk) ==
  [j \in 1..k |-> Op("mkdir", missing[j], j < k \/ lastOk)]

\* one round of the upload loop: sftp.stat, ensure_remote_dir, sftp.put.
\* A failed mkdir or put ends the run with an uncaught exception; a failed
\* put may leave a truncated remote file.  The server creates the file
\* only in a directory that exists and not in the place of a directory.
SmartUpload(p) ==
  /\ run[p].pc = "upload" /\ run[p].backend = "smart"
  /\ LET r == run[p]
         path == r.files_to_upload[r.i + 1]
         stat_ok == remote_path_of(path) \in Entries
         missing == IF stat_ok THEN <<>>
                    ELSE ensure_remote_dir(Entries, remote_dir_of(path))
         ensured == IF stat_ok THEN <<>>
                    ELSE <<Op("ensure", remote_dir_of(path), TRUE)>>
         creatable == /\ remote_dir_of(path) \in remoteDirs \cup Range(missing)
                      /\ remote_path_of(path) \notin remoteDirs
         made == ensured \o Mkdirs(missing, Len(missing), TRUE)
         next == LET r1 == Logged([r EXCEPT !.i = @ + 1],
                                  made \o <<Op("put", <<path>>, TRUE)>>)
                 IN  IF r1.i = Len(r.files_to_upload)
                     THEN smart_after_uploads(r1) ELSE r1
     IN \/ \E k \in 1..Len(missing) :
             Update(p,
                    Exit(Logged(r, ensured \o Mkdirs(missing, k, FALSE)), 1),
                    manifest, remoteFiles,
                    remoteDirs \cup {missing[j] : j \in 1..(k - 1)},
                    everRecorded)
        \/ \E partial \in BOOLEAN :
             /\ partial => creatable
             /\ Update(p,
                       Exit(Logged(r, made \o <<Op("put", <<path>>, FALSE)>>), 1),
                       manifest,
                       IF partial THEN Put(remoteFiles, path, "partial")
                       ELSE remoteFiles,
                       remoteDirs \cup Range(missing), everRecorded)
        \/ /\ path \in DOMAIN localTree[p].files
           /\ creatable
           /\ Update(p, next, manifest,
                     Put(remoteFiles, path, localTree[p].files[path].hash),
                     remoteDirs \cup Range(missing), everRecorded)

\* a manifest write that keeps the entries of the paths whose sftp.remove
\* failed, so that the next run plans their deletion again
SmartPutManifestKeeping(p) ==
  /\ run[p].pc = "put_manifest" /\ run[p].backend = "smart"
  /\ LET r == run[p]
         done(ok) == Exit(Logged(r, <<Op("manifest", <<>>, ok)>>), 0)
         kept == {r.ops[k].paths[1] : k \in {j \in 1..Len(r.ops) :
                    r.ops[j].op = "remove" /\ ~r.ops[j].ok}}
         state == [q \in DOMAIN r.local_state \cup kept |->
                     IF q \in DOMAIN r.local_state
                     THEN r.local_state[q] ELSE r.remote_state.m[q]]
     IN \/ /\ REMOTE_BASE_DIR \in remoteDirs
           /\ Update(p, done(TRUE), json_dump(state), remoteFiles,
                     remoteDirs, everRecorded \cup DOMAIN state)
        \/ \E truncated \in BOOLEAN :
             /\ truncated => REMOTE_BASE_DIR \in remoteDirs
             /\ Update(p, done(FALSE),
                       IF truncated THEN GarbageBlob ELSE manifest,
                       remoteFiles, remoteDirs, everRecorded)

\* json.dump(local_state) and sftp.put of the manifest; a failure is logged
\* and main still ends normally.  A failed put may leave a truncated blob.
SmartPutManifest(p) ==
  /\ run[p].pc = "put_manifest" /\ run[p].backend = "smart"
  /\ LET r == run[p]
         done(ok) == Exit(Logged(r, <<Op("manifest", <<>>, ok)>>), 0)
     IN \/ /\ REMOTE_BASE_DIR \in remoteDirs
           /\ Update(p, done(TRUE), json_dump(r.local_state), remoteFiles,
                     remoteDirs, everRecorded \cup DOMAIN r.local_state)
        \/ \E truncated \in BOOLEAN :
             /\ truncated => REMOTE_BASE_DIR \in remoteDirs
             /\ Update(p, done(FALSE),
                       IF truncated THEN GarbageBlob ELSE manifest,
                       remoteFiles, remoteDirs, everRecorded)

(***************************************************************************)
(* deploy_rsync.main                                                       *)
(***************************************************************************)
rsync_after_deletes(r) == [r EXCEPT !.pc = "rsync", !.i = 0]

rsync_after_plan(r) ==
  IF r.files_to_delete # <<>>
  THEN [r EXCEPT !.pc = "rm", !.i = 0]
  ELSE rsync_after_deletes(r)

\* "if not all([HOST, USER, PASSWORD, REMOTE_BASE_DIR])": exit(1)
StartRsync(p) ==
  /\ ~Running(p)
  /\ LET r == [IdleRun EXCEPT !.pc = "scan", !.backend = "rsync",
                              !.pre_manifest = manifest]
     IN  Update(p, IF Settings \subseteq environ[p] THEN r ELSE Exit(r, 1),
                manifest, remoteFiles, remoteDirs, everRecorded)

\* get_local_files_info(LOCAL_BASE_DIR), which exits without the directory
RsyncScan(p) ==
  /\ run[p].pc = "scan" /\ run[p].backend = "rsync"
  /\ LET got == rsync_get_local_files_info(localTree[p])
     IN  Update(p,
                IF got.exit THEN Exit(run[p], 1)
                ELSE [run[p] EXCEPT !.pc = "mkdir",
                                    !.local_state = got.files_info],
                manifest, remoteFiles, remoteDirs, everRecorded)

\* the first ssh command run with check=False: a failure is passed over
RsyncMkdirUnchecked(p) ==
  /\ run[p].pc = "mkdir" /\ run[p].backend = "rsync"
  /\ \E how \in {"up", "failed"}, ok \in BOOLEAN :
       /\ ok => how = "up"
       /\ Update(p,
                 Logged([run[p] EXCEPT !.pc = "cat", !.session = how],
                        <<Op("mkdir", REMOTE_BASE_DIR, ok)>>),
                 manifest, remoteFiles,
                 IF ok THEN remoteDirs \cup Range(Prefixes(REMOTE_BASE_DIR))
                 ELSE remoteDirs,
                 everRecorded)

\* ssh mkdir -p REMOTE_BASE_DIR, check=True: the first remote command.  It
\* fails when ssh cannot connect (session "failed") or when mkdir itself
\* fails on the server; either way run_cmd exits.
RsyncMkdir(p) ==
  /\ run[p].pc = "mkdir" /\ run[p].backend = "rsync"
  /\ \E how \in {"up", "failed"}, ok \in BOOLEAN :
       /\ ok => how = "up"
       /\ Update(p,
                 IF ok
                 THEN Logged([run[p] EXCEPT !.pc = "cat", !.session = how],
                             <<Op("mkdir", REMOTE_BASE_DIR, TRUE)>>)
                 ELSE Exit(Logged([run[p] EXCEPT !.session = how],
                                  <<Op("mkdir", REMOTE_BASE_DIR, FALSE)>>), 1),
                 manifest, remoteFiles,
                 IF ok THEN remoteDirs \cup Range(Prefixes(REMOTE_BASE_DIR))
                 ELSE remoteDirs,
                 everRecorded)

\* remote_state after the ssh cat (returncode 0: fetched) and json.loads
\* under "except json.JSONDecodeError"
rsync_remote_state(blob, fetched) ==
  IF fetched /\ ~json_load(blob).err THEN json_load(blob).value
  ELSE PyDict(EmptyMap)

\* ssh cat of the manifest, json.loads, and the plan of the deletions
RsyncCat(p) ==
  /\ run[p].pc = "cat" /\ run[p].backend = "rsync"
  /\ \E fetched \in BOOLEAN :
       /\ fetched => manifest.kind # "absent"
       /\ LET rs == rsync_remote_state(manifest, fetched)
          IN  Update(p,
                     rsync_after_plan(
                       [run[p] EXCEPT
                          !.read_blob = IF fetched THEN manifest ELSE AbsentBlob,
                          !.remote_state = rs,
                          !.files_to_delete =
                             rsync_files_to_delete(run[p].local_state, rs)]),
                     manifest, remoteFiles, remoteDirs, everRecorded)

\* the rm command run with check=False: a failed batch is passed over
RsyncRmUnchecked(p) ==
  /\ run[p].pc = "rm" /\ run[p].backend = "rsync"
  /\ LET r == run[p]
         batch == rm_batch(r.files_to_delete, r.i)
         next(ok) == LET r1 == Logged([r EXCEPT !.i = @ + batch_size],
                                      <<Op("rm", batch, ok)>>)
                     IN  IF r1.i >= Len(r.files_to_delete)
                         THEN rsync_after_deletes(r1) ELSE r1
     IN \E ok \in BOOLEAN :
          Update(p, next(ok), manifest,
                 IF ok THEN Without(remoteFiles, Range(batch)) ELSE remoteFiles,
                 remoteDirs, everRecorded)

\* one ssh "rm -f" of a batch, check=True: a failure exits, after rm has
\* removed none of the batch or all of it but the last path
RsyncRm(p) ==
  /\ run[p].pc = "rm" /\ run[p].backend = "rsync"
  /\ LET r == run[p]
         batch == rm_batch(r.files_to_delete, r.i)
         next == LET r1 == Logged([r EXCEPT !.i = @ + batch_size],
                                  <<Op("rm", batch, TRUE)>>)
                 IN  IF r1.i >= Len(r.files_to_delete)
                     THEN rsync_after_deletes(r1) ELSE r1
     IN \/ Update(p, next, manifest, Without(remoteFiles, Range(batch)),
                  remoteDirs, everRecorded)
        \/ \E gone \in {{}, Range(SubSeq(batch, 1, Len(batch) - 1))} :
             Update(p, Exit(Logged(r, <<Op("rm", batch, FALSE)>>), 1),
                    manifest, Without(remoteFiles, gone), remoteDirs,
                    everRecorded)

\* what the remote target holds once rsync has copied the files S of tree
rsync_copied(files, tree, S) ==
  [q \in (DOMAIN files) \cup (S \ {MANIFEST_FILENAME}) |->
     IF q \in S THEN tree.files[q].hash ELSE files[q]]

\* rsync -avzc build/server/ to REMOTE_BASE_DIR/, check=True.  It copies
\* every file of the tree, a local deploy_manifest.json included, whose
\* bytes then stand where the manifest is; a failure exits after any part
\* of the files has been copied.
RsyncTransfer(p) ==
  /\ run[p].pc = "rsync" /\ run[p].backend = "rsync"
  /\ LET r == run[p]
         tree == localTree[p]
         blob(S) == IF MANIFEST_FILENAME \in S THEN GarbageBlob ELSE manifest
     IN \/ /\ tree.exists
           /\ Update(p,
                     Logged([r EXCEPT !.pc = "put_manifest"],
                            <<Op("rsync", Iter(DOMAIN tree.files), TRUE)>>),
                     blob(DOMAIN tree.files),
                     rsync_copied(remoteFiles, tree, DOMAIN tree.files),
                     remoteDirs, everRecorded)
        \/ \E S \in SUBSET (DOMAIN tree.files) :
             Update(p, Exit(Logged(r, <<Op("rsync", Iter(S), FALSE)>>), 1),
                    blob(S), rsync_copied(remoteFiles, tree, S), remoteDirs,
                    everRecorded)

\* json.dump(local_state) and rsync of new_manifest.json, check=True
RsyncPutManifest(p) ==
  /\ run[p].pc = "put_manifest" /\ run[p].backend = "rsync"
  /\ LET r == run[p]
     IN \/ Update(p, Exit(Logged(r, <<Op("manifest", <<>>, TRUE)>>), 0),
                  json_dump(r.local_state), remoteFiles, remoteDirs,
                  everRecorded \cup DOMAIN r.local_state)
        \/ Update(p, Exit(Logged(r, <<Op("manifest", <<>>, FALSE)>>), 1),
                  manifest, remoteFiles, remoteDirs, everRecorded)

(***************************************************************************)
(* Runs one after the other, of either script, from one machine            *)
(***************************************************************************)
Step(p) ==
  \/ ChangeLocal(p)
  \/ StartSmart(p)
  \/ SmartConnect(p)
  \/ SmartReadManifest(p)
  \/ SmartRemove(p)
  \/ SmartUpload(p)
  \/ SmartPutManifest(p)
  \/ StartRsync(p)
  \/ RsyncScan(p)
  \/ RsyncMkdir(p)
  \/ RsyncCat(p)
  \/ RsyncRm(p)
  \/ RsyncTransfer(p)
  \/ RsyncPutManifest(p)

Next == Step(1)

Spec == Init /\ [][Next]_vars

(***************************************************************************)
(* The plan taken alone: one run of either script up to its plan, from     *)
(* every tree over the named paths and every manifest blob, valid or not   *)
(***************************************************************************)
BlobPaths == NamedPaths \cup {ForeignPath}

\* valid manifests, JSON objects with other values, and JSON arrays
PlanBlobs ==
  {AbsentBlob, GarbageBlob}
    \cup {json_dump(m) : m \in FileMapsOver(BlobPaths)}
    \cup {Blob(k, [q \in S |-> Info("h1", 10)]) :
            k \in {"badmap", "list"}, S \in (SUBSET BlobPaths) \ {{}}}

InitPlan ==
  /\ localTree \in [Procs -> PlanTrees]
  /\ localTree[2] = NoTree
  /\ environ = [p \in Procs |-> Settings]
  /\ manifest \in PlanBlobs
  /\ remoteDirs = Range(Prefixes(REMOTE_BASE_DIR))
  /\ remoteFiles = [q \in {ForeignPath} |-> "foreign"]
  /\ run = [p \in Procs |-> IdleRun]
  /\ everRecorded = IF manifest.kind = "map" THEN DOMAIN manifest.m ELSE {}
  /\ last = NoLast
  /\ NoTransfer
  /\ dircall = NoDirCall

NextPlan ==
  \/ StartSmart(1)
  \/ SmartConnect(1)
  \/ SmartReadManifest(1)
  \/ StartRsync(1)
  \/ RsyncScan(1)
  \/ RsyncMkdir(1)
  \/ RsyncCat(1)

SpecPlan == InitPlan /\ [][NextPlan]_vars

(***************************************************************************)
(* Incomplete settings: one run of either script up to its plan, started   *)
(* with any part of the settings defined                                   *)
(***************************************************************************)
InitConfig ==
  /\ localTree \in [Procs -> Trees]
  /\ localTree[2] = NoTree
  /\ environ \in [Procs -> SUBSET Settings]
  /\ environ[2] = Settings
  /\ \E m \in {EmptyMap, Build({"a.txt", "c.txt"}, Info("h1", 10)).files} :
       /\ manifest \in {AbsentBlob, json_dump(m)}
       /\ remoteFiles =
            [q \in {ForeignPath} \cup DOMAIN m |->
               IF q = ForeignPath THEN "foreign" ELSE m[q].hash]
       /\ everRecorded = DOMAIN m
  /\ remoteDirs = Range(Prefixes(REMOTE_BASE_DIR))
  /\ run = [p \in Procs |-> IdleRun]
  /\ last = NoLast
  /\ NoTransfer
  /\ dircall = NoDirCall

SpecConfig == InitConfig /\ [][NextPlan]_vars

(***************************************************************************)
(* A run and the run that follows it: process 1 runs either script once,   *)
(* from any build against a target that holds an earlier build; when it    *)
(* has ended, process 2 runs a script on the same local tree, up to its    *)
(* plan                                                                    *)
(***************************************************************************)
\* the local states earlier runs may have published
Published == {smart_get_local_files_info(t) : t \in Trees}

InitRetry ==
  /\ \E t \in Trees : localTree = [p \in Procs |-> t]
  /\ environ = [p \in Procs |-> Settings]
  /\ \E m \in Published :
       /\ manifest \in {AbsentBlob, json_dump(m)}
       /\ remoteFiles =
            [q \in {ForeignPath} \cup DOMAIN m |->
               IF q = ForeignPath THEN "foreign" ELSE m[q].hash]
       /\ everRecorded = DOMAIN m
  /\ remoteDirs = Range(Prefixes(REMOTE_BASE_DIR))
  /\ run = [p \in Procs |-> IdleRun]
  /\ last = NoLast
  /\ NoTransfer
  /\ dircall = NoDirCall

\* the steps of a run once it is started
RunStep(p) ==
  \/ SmartConnect(p)
  \/ SmartReadManifest(p)
  \/ SmartRemove(p)
  \/ SmartUpload(p)
  \/ SmartPutManifest(p)
  \/ RsyncScan(p)
  \/ RsyncMkdir(p)
  \/ RsyncCat(p)
  \/ RsyncRm(p)
  \/ RsyncTransfer(p)
  \/ RsyncPutManifest(p)

FirstRun ==
  \/ run[1].pc = "idle" /\ (StartSmart(1) \/ StartRsync(1))
  \/ RunStep(1)

\* the following run, as far as its plan
NextRun ==
  \/ /\ run[1].pc = "done" /\ run[2].pc = "idle"
     /\ (StartSmart(2) \/ StartRsync(2))
  \/ SmartConnect(2)
  \/ SmartReadManifest(2)
  \/ RsyncScan(2)
  \/ RsyncMkdir(2)
  \/ RsyncCat(2)

NextRetry == FirstRun \/ NextRun

SpecRetry == InitRetry /\ [][NextRetry]_vars

(***************************************************************************)
(* Uploads reporting their progress: callbacks are created and called as   *)
(* time passes, with any byte counts                                       *)
(***************************************************************************)
InitProgress ==
  /\ localTree = [p \in Procs |-> NoTree]
  /\ environ = [p \in Procs |-> Settings]
  /\ manifest = AbsentBlob
  /\ remoteDirs = Range(Prefixes(REMOTE_BASE_DIR))
  /\ remoteFiles = [q \in {ForeignPath} |-> "foreign"]
  /\ run = [p \in Procs |-> IdleRun]
  /\ everRecorded = {}
  /\ last = NoLast
  /\ NoTransfer
  /\ dircall = NoDirCall

NextProgress == Tick \/ CreateCallback \/ ProgressCall

SpecProgress == InitProgress /\ [][NextProgress]_vars

(***************************************************************************)
(* Directories: ensure_remote_dir called on its own with any path, and one *)
(* run of deploy_smart.main with a file in a subdirectory, against a       *)
(* target where any part of the directories exists and a file may stand    *)
(* where a directory is to be                                              *)
(***************************************************************************)
\* the directory the SFTP server resolves a relative path against
HomeDir == <<"home", "ci">>

\* the directory names a path goes through, from the root downwards
Resolve(remote_path) ==
  IF remote_path # <<>> /\ remote_path[1] = "" THEN Parts(remote_path)
  ELSE HomeDir \o Parts(remote_path)

\* "/srv/mc/mods", "/srv/mc", "/srv//mc/", "/srv/mc/mods/sub", "" and the
\* relative "srv/mc", each as split('/') gives it
DirInputs ==
  {<<"", "srv", "mc", "mods">>, <<"", "srv", "mc">>,
   <<"", "srv", "", "mc", "">>, <<"", "srv", "mc", "mods", "sub">>, <<"">>,
   <<"srv", "mc">>}

DirTrees ==
  {Build({"a.txt", NestedPath}, Info("h1", 10)),
   Build({NestedPath}, Info("h1", 10)),
   Build({"a.txt", BlockingPath}, Info("h1", 10))}

\* sftp.mkdir succeeds only in a directory that exists
Makeable(missing, k) ==
  \A j \in 1..k :
    LET parent == SubSeq(missing[j], 1, Len(missing[j]) - 1)
    IN  parent = <<>> \/ parent \in remoteDirs
          \/ \E i \in 1..(j - 1) : missing[i] = parent

\* one call ensure_remote_dir(sftp, remote_path): it returns after its
\* mkdir calls, or the k-th of them raises
EnsureDir ==
  \E remote_path \in DirInputs :
    LET missing == ensure_remote_dir(Entries, remote_path)
        call(made, returned) ==
          [path |-> remote_path, before |-> Entries, made |-> made,
           after |-> remoteDirs', returned |-> returned,
           again |-> dircall.returned /\ dircall.path = remote_path]
    IN  /\ \/ /\ Makeable(missing, Len(missing))
              /\ remoteDirs' = remoteDirs \cup Range(missing)
              /\ dircall' = call(missing, TRUE)
           \/ \E k \in 1..Len(missing) :
                /\ Makeable(missing, k - 1)
                /\ remoteDirs' = remoteDirs \cup {missing[j] : j \in 1..(k - 1)}
                /\ dircall' = call(SubSeq(missing, 1, k), FALSE)
        /\ UNCHANGED <<localTree, environ, manifest, remoteFiles, run,
                       everRecorded, last, clock, callback, progress>>

InitDirs ==
  /\ localTree \in [Procs -> DirTrees]
  /\ localTree[2] = localTree[1]
  /\ environ = [p \in Procs |-> Settings]
  /\ \E n \in 0..3, blocked \in BOOLEAN :
       /\ blocked => n = 2
       /\ remoteDirs =
            Range(Prefixes(HomeDir))
              \cup {SubSeq(<<"srv", "mc", "mods">>, 1, k) : k \in 1..n}
       /\ remoteFiles =
            [q \in (IF blocked THEN {BlockingPath} ELSE {}) |-> "hb"]
       /\ manifest \in
            {AbsentBlob,
             json_dump([q \in DOMAIN remoteFiles |-> Info("hb", 10)])}
       /\ everRecorded = DOMAIN remoteFiles
  /\ run = [p \in Procs |-> IdleRun]
  /\ last = NoLast
  /\ NoTransfer
  /\ dircall = NoDirCall

NextDirs ==
  \/ EnsureDir
  \/ run[1].pc = "idle" /\ StartSmart(1)
  \/ SmartConnect(1)
  \/ SmartReadManifest(1)
  \/ SmartRemove(1)
  \/ SmartUpload(1)
  \/ SmartPutManifest(1)

SpecDirs == InitDirs /\ [][NextDirs]_vars

(***************************************************************************)
(* Two runs of deploy_smart.main at once, from two machines with different *)
(* builds, against one target; their remote calls interleave in any order  *)
(***************************************************************************)
RaceTrees ==
  {Build({"a.txt", "c.txt"}, Info("h1", 10)),
   Build({"a.txt", "b.txt"}, Info("h2", 10)),
   Build({"b.txt"}, Info("h1", 10))}

InitRace ==
  /\ localTree \in [Procs -> RaceTrees]
  /\ localTree[1] # localTree[2]
  /\ environ = [p \in Procs |-> Settings]
  /\ \E m \in {EmptyMap, Build({"a.txt", "c.txt"}, Info("h1", 10)).files} :
       /\ manifest = IF m = EmptyMap THEN AbsentBlob ELSE json_dump(m)
       /\ remoteFiles =
            [q \in {ForeignPath} \cup DOMAIN m |->
               IF q = ForeignPath THEN "foreign" ELSE m[q].hash]
       /\ everRecorded = DOMAIN m
  /\ remoteDirs = Range(Prefixes(REMOTE_BASE_DIR))
  /\ run = [p \in Procs |-> IdleRun]
  /\ last = NoLast
  /\ NoTransfer
  /\ dircall = NoDirCall

RaceStep(p) ==
  \/ run[p].pc = "idle" /\ StartSmart(p)
  \/ SmartConnect(p)
  \/ SmartReadManifest(p)
  \/ SmartRemove(p)
  \/ SmartUpload(p)
  \/ SmartPutManifest(p)

NextRace == \E p \in Procs : RaceStep(p)

SpecRace == InitRace /\ [][NextRace]_vars

(***************************************************************************)
(* A skipped deletion and the runs after it: process 1 runs                *)
(* deploy_smart.main once against a target that holds an earlier build;    *)
(* when that run has written its manifest after a failed sftp.remove, any  *)
(* number of runs of either script follow as process 2, the build being    *)
(* rebuilt in between without the paths whose deletion failed              *)
(***************************************************************************)
\* the paths of the remove calls of run r that failed
SkippedBy(r) ==
  {r.ops[k].paths[1] : k \in {j \in 1..Len(r.ops) :
                                r.ops[j].op = "remove" /\ ~r.ops[j].ok}}

\* run 1 has written its manifest after skipping at least one deletion
CommittedWithSkip ==
  /\ run[1].pc = "done" /\ Wrote(run[1])
  /\ SkippedBy(run[1]) # {}

InitStale ==
  /\ \E t \in {Build({"a.txt", "b.txt"}, Info("h1", 10)),
                Build({"b.txt"}, Info("h1", 10))} :
       localTree = [p \in Procs |-> t]
  /\ environ = [p \in Procs |-> Settings]
  /\ LET m == Build({"a.txt", "c.txt"}, Info("h1", 10)).files
     IN  /\ manifest = json_dump(m)
         /\ remoteFiles =
              [q \in {ForeignPath} \cup DOMAIN m |->
                 IF q = ForeignPath THEN "foreign" ELSE m[q].hash]
         /\ everRecorded = DOMAIN m
  /\ remoteDirs = Range(Prefixes(REMOTE_BASE_DIR))
  /\ run = [p \in Procs |-> IdleRun]
  /\ last = NoLast
  /\ NoTransfer
  /\ dircall = NoDirCall

\* build/server is rebuilt, still without the paths whose deletion failed
Rebuild ==
  /\ CommittedWithSkip
  /\ ChangeLocal(2)
  /\ SkippedBy(run[1]) \cap DOMAIN localTree'[2].files = {}

SkippingRun ==
  \/ run[1].pc = "idle" /\ StartSmart(1)
  \/ SmartConnect(1)
  \/ SmartReadManifest(1)
  \/ SmartRemove(1)
  \/ SmartUpload(1)
  \/ SmartPutManifest(1)

LaterRuns ==
  \/ CommittedWithSkip /\ (StartSmart(2) \/ StartRsync(2))
  \/ RunStep(2)
  \/ Rebuild

NextStale == SkippingRun \/ LaterRuns

SpecStale == InitStale /\ [][NextStale]_vars

(***************************************************************************)
(* Many deletions: runs of deploy_rsync.main against a target whose        *)
(* manifest records the first n bulk files, the local tree keeping at most *)
(* the first of them                                                       *)
(***************************************************************************)
BulkMap(n) == [q \in {BulkPath(k) : k \in 1..n} |-> Info("hb", 10)]

InitBulk ==
  /\ \E keep \in 0..1 : localTree = [p \in Procs |-> Tree(BulkMap(keep))]
  /\ environ = [p \in Procs |-> Settings]
  /\ \E n \in 0..MaxBulk :
       /\ manifest = json_dump(BulkMap(n))
       /\ remoteFiles =
            [q \in {ForeignPath} \cup DOMAIN BulkMap(n) |->
               IF q = ForeignPath THEN "foreign" ELSE "hb"]
       /\ everRecorded = DOMAIN BulkMap(n)
  /\ remoteDirs = Range(Prefixes(REMOTE_BASE_DIR))
  /\ run = [p \in Procs |-> IdleRun]
  /\ last = NoLast
  /\ NoTransfer
  /\ dircall = NoDirCall

NextBulk ==
  \/ StartRsync(1)
  \/ RsyncScan(1)
  \/ RsyncMkdir(1)
  \/ RsyncCat(1)
  \/ RsyncRm(1)
  \/ RsyncTransfer(1)
  \/ RsyncPutManifest(1)

SpecBulk == InitBulk /\ [][NextBulk]_vars

(***************************************************************************)
(* Properties                                                              *)
(***************************************************************************)
OpsOf(r, kinds) == {k \in 1..Len(r.ops) : r.ops[k].op \in kinds}

\* the paths a run has issued a remote delete for, successful or not
Deleted(r) == UNION {Range(r.ops[k].paths) : k \in OpsOf(r, {"remove", "rm"})}

Failed(r, kinds) == {k \in OpsOf(r, kinds) : ~r.ops[k].ok}

NoDuplicates(seq) == Cardinality(Range(seq)) = Len(seq)

\* deploy_smart.main has made its plan and has not ended
Planned(r) ==
  r.backend = "smart" /\ r.pc \in {"delete", "upload", "put_manifest"}

\* C1: deletion safety.  Over any sequence of runs of either script, every
\* remote delete a run issues targets a path that is a key of the manifest
\* the run read and no key of the run's local state; so it is a path some
\* run has recorded in a manifest, and a path never recorded is never
\* deleted.
C1_DeletionSafety ==
  \A p \in Procs : \A q \in Deleted(run[p]) :
    /\ run[p].read_blob.kind = "map"
    /\ q \in DOMAIN run[p].read_blob.m
    /\ q \notin DOMAIN run[p].local_state
    /\ q \in everRecorded

\* a run of deploy_smart.main deletes a file that a run of deploy_rsync.main
\* recorded, next to a file of somebody else that no manifest has recorded
C1_Witness ==
  /\ run[1].backend = "smart"
  /\ last.backend = "rsync" /\ last.wrote
  /\ \E k \in OpsOf(run[1], {"remove"}) : run[1].ops[k].ok
  /\ ForeignPath \in DOMAIN remoteFiles
  /\ ForeignPath \notin everRecorded

\* the manifest a run's plan is made against: the mapping it loaded, or the
\* empty one when there was none to load
LoadedManifest(r) ==
  IF r.read_blob.kind = "map" THEN r.read_blob.m ELSE EmptyMap

\* C2: diff correctness of the plan of deploy_smart.main.  For local state
\* L, manifest M and force flag f the upload list is exactly the paths of L
\* that are not in M or have another hash in M when f is unset, and all of
\* L when f is set; the delete list is exactly the paths of M not in L
\* whatever f is.
C2_DiffCorrectness ==
  \A p \in Procs :
    LET r == run[p]
        L == r.local_state
        M == LoadedManifest(r)
    IN  (Planned(r) /\ r.read_blob.kind \in {"map", "absent", "garbage"}) =>
          /\ NoDuplicates(r.files_to_upload)
          /\ NoDuplicates(r.files_to_delete)
          /\ Range(r.files_to_upload) =
               IF r.force_full THEN DOMAIN L
               ELSE {q \in DOMAIN L :
                       q \notin DOMAIN M \/ L[q].hash # M[q].hash}
          /\ Range(r.files_to_delete) = {q \in DOMAIN M : q \notin DOMAIN L}

\* a plan without the force flag that uploads a new file, deletes a removed
\* one and leaves alone a file whose size differs and whose hash is equal
C2_Witness ==
  LET r == run[1]
  IN  /\ Planned(r) /\ ~r.force_full /\ r.read_blob.kind = "map"
      /\ "a.txt" \in DOMAIN r.local_state
      /\ "a.txt" \in DOMAIN r.read_blob.m
      /\ r.local_state["a.txt"].hash = r.read_blob.m["a.txt"].hash
      /\ r.local_state["a.txt"].size # r.read_blob.m["a.txt"].size
      /\ r.files_to_upload = <<"b.txt">>
      /\ r.files_to_delete = <<"c.txt">>

\* C3: commit ordering.  If an upload of a run fails (sftp.put raising in
\* deploy_smart, the rsync transfer exiting non-zero in deploy_rsync), the
\* run ends at that call with a non-zero exit code, it issues no manifest
\* write, and the remote manifest is still the one from before the run.
C3_CommitOrdering ==
  \A p \in Procs :
    LET r == run[p]
    IN  \A k \in Failed(r, {"put", "rsync"}) :
          /\ k = Len(r.ops)
          /\ r.pc = "done" /\ r.exit \notin {0, -1}
          /\ OpsOf(r, {"manifest"}) = {}
          /\ manifest = r.pre_manifest

\* C4: missing local build tree.  If build/server does not exist when a run
\* starts, the run ends with a non-zero exit code and issues no remote
\* delete, no upload, no directory creation and no manifest write.
C4_SourceMissing ==
  \A p \in Procs :
    LET r == run[p]
    IN  (r.backend # "none" /\ ~localTree[p].exists) =>
          /\ r.ops = <<>>
          /\ r.pc = "done" => r.exit \notin {0, -1}
          /\ r.pc \in {"connect", "scan", "read_manifest", "done"}

\* C5: wholesale commit.  After a run that ends without a fatal failure
\* (exit code 0) the remote manifest is the local state the run computed:
\* the same keys, the same hash and size for each.
C5_WholesaleCommit ==
  \A p \in Procs :
    LET r == run[p]
    IN  (r.pc = "done" /\ r.exit = 0) => manifest = json_dump(r.local_state)

Invalid(blob) == blob.kind \in {"garbage", "badmap", "list"}

\* C6: corrupt-manifest resilience.  A run that reads a manifest blob with
\* invalid content (not parseable, or parseable but no mapping of path to
\* {hash, size}) goes on as a run that finds no manifest: its prior state is
\* empty, it plans no deletion, deploy_smart plans the upload of every local
\* file, and the run does not end at the plan.
C6_CorruptManifest ==
  \A p \in Procs :
    LET r == run[p]
    IN  (r.backend # "none" /\ Invalid(r.read_blob)) =>
          /\ r.remote_state = PyDict(EmptyMap)
          /\ r.files_to_delete = <<>>
          /\ r.backend = "smart" =>
               Range(r.files_to_upload) = DOMAIN r.local_state
          /\ r.pc # "done"

EmptyPlan(r) == r.files_to_upload = <<>> /\ r.files_to_delete = <<>>

\* C7: idempotence.  When deploy_smart.main has run to its end and runs
\* again with no change to the local tree in between, the plan of the second
\* run is empty.
C7_Idempotence ==
  \A p \in Procs :
    (/\ Planned(run[p])
     /\ last.backend = "smart" /\ last.exit = 0 /\ last.same)
      => EmptyPlan(run[p])

\* C7 as amended: when a run of deploy_smart.main has written its manifest
\* and the next run starts with the local tree as the first one scanned it,
\* without the force flag, and loads that manifest, its plan is empty.
C7_IdempotenceAmended ==
  \A p \in Procs :
    (/\ Planned(run[p])
     /\ last.backend = "smart" /\ last.wrote /\ last.same
     /\ ~run[p].force_full
     /\ run[p].read_blob.kind = "map")
      => EmptyPlan(run[p])

\* a second run over an unchanged tree of at least one file
C7_Witness ==
  /\ Planned(run[1])
  /\ last.backend = "smart" /\ last.wrote /\ last.same
  /\ ~run[1].force_full
  /\ run[1].read_blob.kind = "map"
  /\ DOMAIN run[1].local_state # {}
  /\ EmptyPlan(run[1])

\* the calls that upload: for deploy_smart the on-demand mkdir and the put
UploadKinds(r) == IF r.backend = "smart" THEN {"mkdir", "put"} ELSE {"rsync"}

\* the paths of the calls of one kind, in the order the run issued them
OpPaths(r, kind) ==
  LET sel == SelectSeq(r.ops, LAMBDA o : o.op = kind)
  IN  [k \in 1..Len(sel) |-> sel[k].paths[1]]

\* C8: apply ordering.  In both scripts no delete is issued after an upload
\* or a manifest write, every planned delete has been issued when the first
\* upload is, and the manifest write is the last call, issued after every
\* planned upload.
C8_ApplyOrdering ==
  \A p \in Procs :
    LET r == run[p]
        later == UploadKinds(r) \cup {"manifest"}
    IN  /\ \A k \in OpsOf(r, {"remove", "rm"}) :
             \A j \in 1..(k - 1) : r.ops[j].op \notin later
        /\ OpsOf(r, later) # {} => Deleted(r) = Range(r.files_to_delete)
        /\ \A k \in OpsOf(r, {"manifest"}) :
             /\ k = Len(r.ops)
             /\ Failed(r, UploadKinds(r)) = {}
             /\ IF r.backend = "smart"
                THEN OpPaths(r, "put") = r.files_to_upload
                ELSE OpsOf(r, {"rsync"}) # {}

\* a run of deploy_rsync.main that has deleted, transferred and committed
C8_Witness ==
  LET r == run[1]
  IN  /\ r.backend = "rsync" /\ r.pc = "done" /\ r.exit = 0
      /\ OpsOf(r, {"rm"}) # {}
      /\ OpsOf(r, {"rsync"}) # {}
      /\ OpsOf(r, {"manifest"}) # {}

\* C9: best-effort deletion in deploy_smart.main.  When the deletion of a
\* planned path fails, the run goes on: every planned deletion is attempted,
\* and unless an upload fails every planned upload is executed, the manifest
\* write is issued and the exit code is 0.
C9_BestEffortDelete ==
  \A p \in Procs :
    LET r == run[p]
    IN  (r.backend = "smart" /\ Failed(r, {"remove"}) # {}) =>
          /\ r.pc # "delete" => OpPaths(r, "remove") = r.files_to_delete
          /\ (r.pc = "done" /\ Failed(r, {"mkdir", "put"}) = {}) =>
               /\ OpPaths(r, "put") = r.files_to_upload
               /\ OpsOf(r, {"manifest"}) # {}
               /\ r.exit = 0

\* the first of two deletions failed and left its file, the second was
\* attempted, the upload was made, the manifest written, the exit code 0
C9_Witness ==
  LET r == run[1]
  IN  /\ r.backend = "smart" /\ r.pc = "done" /\ r.exit = 0
      /\ Len(r.files_to_delete) = 2
      /\ r.ops[1].op = "remove" /\ ~r.ops[1].ok
      /\ r.files_to_delete[1] \in DOMAIN remoteFiles
      /\ r.ops[2].op = "remove" /\ r.ops[2].ok
      /\ r.files_to_upload # <<>>
      /\ OpPaths(r, "put") = r.files_to_upload
      /\ Wrote(r)

\* C10: fatal batch deletion in deploy_rsync.main.  If the rm command of a
\* delete batch fails, the run ends there with a non-zero exit code: no
\* later batch, no rsync transfer and no manifest write is issued, and the
\* remote manifest is the one from before the run.
C10_FatalBatchDelete ==
  \A p \in Procs :
    LET r == run[p]
    IN  \A k \in Failed(r, {"rm"}) :
          /\ k = Len(r.ops)
          /\ r.pc = "done" /\ r.exit \notin {0, -1}
          /\ OpsOf(r, {"rsync", "manifest"}) = {}
          /\ manifest = r.pre_manifest

\* the second of three batches failed
C10_Witness ==
  LET r == run[1]
  IN  /\ r.backend = "rsync" /\ r.pc = "done"
      /\ Failed(r, {"rm"}) # {}
      /\ Cardinality(OpsOf(r, {"rm"})) = 2
      /\ Len(r.files_to_delete) > 2 * batch_size

\* C11: a run started with a required setting missing does no I/O (no
\* connection, no remote read, no remote mutation) and ends with a non-zero
\* exit code, in deploy_rsync.main and in deploy_smart.main.
C11_ConfigError ==
  \A p \in Procs :
    LET r == run[p]
    IN  (r.pc # "idle" /\ ~(Settings \subseteq environ[p])) =>
          /\ r.session = "none"
          /\ r.ops = <<>>
          /\ r.read_blob = AbsentBlob
          /\ r.pc = "done" => r.exit > 0

\* C12: a run whose session could not be established (transport.connect
\* failed in deploy_smart.main, the first ssh command could not connect in
\* deploy_rsync.main) has ended with a non-zero exit code; it has read no
\* manifest, made no plan, and issued no remote delete, upload or manifest
\* write, and the manifest is the one before the run.
C12_ConnectionFailure ==
  \A p \in Procs :
    LET r == run[p]
    IN  r.session = "failed" =>
          /\ r.pc = "done" /\ r.exit > 0
          /\ OpsOf(r, {"remove", "rm", "put", "rsync", "manifest"}) = {}
          /\ \A k \in 1..Len(r.ops) : ~r.ops[k].ok
          /\ r.read_blob = AbsentBlob
          /\ r.files_to_upload = <<>> /\ r.files_to_delete = <<>>
          /\ (\A q \in Procs \ {p} : run[q].pc = "idle") =>
                manifest = r.pre_manifest

\* a connection failure of a run of deploy_rsync.main against a target
\* that has a manifest and whose local tree would have planned a deletion
C12_Witness ==
  /\ run[1].session = "failed" /\ run[1].backend = "rsync"
  /\ manifest.kind = "map"
  /\ \E q \in DOMAIN manifest.m : q \notin DOMAIN run[1].local_state

\* the run has made its plan
PlanMade(r) == r.pc \in {"delete", "upload", "put_manifest", "rm", "rsync"}

\* the run was aborted by a failed upload: a put (or the mkdir before it)
\* in deploy_smart.main, the rsync transfer in deploy_rsync.main
UploadAborted(r) ==
  /\ r.pc = "done" /\ r.exit > 0
  /\ Failed(r, {"put", "rsync"}) # {}
       \/ (r.backend = "smart" /\ Failed(r, {"mkdir"}) # {})

\* the run read the manifest blob as it stood when the run started
ReadAsItStood(r) == r.read_blob = r.pre_manifest

\* C13: when a run was aborted by an upload failure and the following run
\* of the same script has the same local tree and the same force flag, the
\* following run plans the same uploads and the same deletions as the
\* aborted run (both runs reading the manifest that is there).
C13_RetryAfterUploadFailure ==
  LET a == run[1]
      b == run[2]
  IN  (/\ UploadAborted(a) /\ PlanMade(b)
       /\ b.backend = a.backend /\ b.force_full = a.force_full
       /\ ReadAsItStood(a) /\ ReadAsItStood(b)) =>
        /\ b.files_to_upload = a.files_to_upload
        /\ b.files_to_delete = a.files_to_delete

\* the run executed its whole plan and then failed to write the manifest
ManifestWriteFailed(r) ==
  /\ r.pc = "done"
  /\ Failed(r, {"manifest"}) # {}
  /\ Failed(r, {"put", "rsync", "mkdir"}) = {}

\* the paths a run has uploaded, and those it has removed
Uploaded(r) ==
  UNION {Range(r.ops[k].paths) : k \in OpsOf(r, {"put", "rsync"}) \ Failed(r, {"put", "rsync"})}

Removed(r) ==
  UNION {Range(r.ops[k].paths) : k \in OpsOf(r, {"remove", "rm"}) \ Failed(r, {"remove", "rm"})}

\* C14: when a run executed all its uploads and then failed to write the
\* manifest, the failed write is its last remote call, what it uploaded and
\* removed stays so, the remote manifest is the one from before the run,
\* and the following run of the same script with the same local tree and
\* force flag makes the same plan.
C14_ManifestWriteFailure ==
  LET a == run[1]
      b == run[2]
  IN  ManifestWriteFailed(a) =>
        /\ a.ops[Len(a.ops)].op = "manifest"
        /\ \A q \in Uploaded(a) \ {MANIFEST_FILENAME} :
             q \in DOMAIN remoteFiles /\ remoteFiles[q] = localTree[1].files[q].hash
        /\ \A q \in Removed(a) : q \notin DOMAIN remoteFiles
        /\ manifest = a.pre_manifest
        /\ (/\ PlanMade(b) /\ b.backend = a.backend
            /\ b.force_full = a.force_full
            /\ ReadAsItStood(a) /\ ReadAsItStood(b)) =>
              /\ b.files_to_upload = a.files_to_upload
              /\ b.files_to_delete = a.files_to_delete

\* the paths whose deletion the run skipped after a failed sftp.remove
Skipped(r) ==
  UNION {Range(r.ops[k].paths) : k \in Failed(r, {"remove"})}

\* the files on the remote target that runs of the tool have put there
ToolFiles == (DOMAIN remoteFiles) \ {ForeignPath}

\* C15: manifest faithfulness.  After a run that ends with exit code 0 the
\* manifest is a mapping whose keys are the tool's files on the remote
\* target, each with the hash of the remote content, apart from the paths
\* whose deletion that run skipped.
C15_ManifestFaithfulness ==
  \A p \in Procs :
    LET r == run[p]
    IN  (r.pc = "done" /\ r.exit = 0) =>
          /\ manifest.kind = "map"
          /\ ToolFiles \ Skipped(r) = DOMAIN manifest.m
          /\ \A q \in DOMAIN manifest.m :
               q \in DOMAIN remoteFiles /\ remoteFiles[q] = manifest.m[q].hash

\* C16: progress throttling.  A call of the callback logs a line exactly
\* when more than 5 seconds have passed since the last line (since the
\* creation of the callback if there is none) or transferred = total; a
\* line logged with transferred # total comes more than 5 seconds after
\* the line before it of that kind; and no call raises, total = 0 and no
\* time elapsed included.
C16_ProgressThrottling ==
  progress.calls > 0 =>
    /\ ~progress.raised
    /\ progress.emitted <=>
         \/ progress.at - progress.prevLine > 5
         \/ progress.transferred = progress.total
    /\ (/\ progress.emitted /\ progress.transferred # progress.total
        /\ progress.prevPlain >= 0) =>
         progress.at - progress.prevPlain > 5

\* a second line with transferred # total, after a completion line of a
\* file of size 0 in between
C16_Witness ==
  /\ progress.calls > 0 /\ progress.emitted
  /\ progress.transferred # progress.total /\ progress.total = 0
  /\ progress.prevPlain >= 0
  /\ progress.prevLine > progress.prevPlain

\* C17: after a call ensure_remote_dir(path) has returned, every prefix of
\* the directory names of path is a remote directory; the call issues
\* mkdir only for paths that did not exist; a call that follows a returned
\* call with the same path issues no mkdir; and in deploy_smart.main every
\* sftp.put whose target's directory was missing comes after a call of
\* ensure_remote_dir for that directory.
C17_EnsureRemoteDir ==
  /\ dircall.returned =>
       \A d \in Range(Prefixes(Resolve(dircall.path))) : d \in dircall.after
  /\ \A d \in Range(dircall.made) : d \notin dircall.before
  /\ dircall.again => dircall.made = <<>>
  /\ \A p \in Procs :
       \A k \in OpsOf(run[p], {"put"}) :
         LET dir == remote_dir_of(run[p].ops[k].paths[1])
         IN  \/ \E j \in 1..(k - 1) : run[p].ops[j] = Op("ensure", dir, TRUE)
             \/ /\ dir \in remoteDirs
                /\ \A j \in 1..(k - 1) : run[p].ops[j] # Op("mkdir", dir, TRUE)

\* both runs have ended with exit code 0 and each has written its manifest
BothCommitted ==
  \A p \in Procs : run[p].pc = "done" /\ run[p].exit = 0 /\ Wrote(run[p])

\* C18: with two runs interleaved, each run issues deletes only for keys of
\* the manifest it loaded itself that are no keys of its own local state,
\* and once both have ended successfully, each having written its
\* manifest, the remote manifest is the local state of the run that wrote
\* last.
C18_ConcurrentRuns ==
  /\ \A p \in Procs :
       /\ Deleted(run[p]) \subseteq PyKeys(run[p].remote_state)
       /\ Deleted(run[p]) \cap DOMAIN run[p].local_state = {}
       /\ run[p].remote_state.m # EmptyMap =>
            run[p].remote_state.m = run[p].read_blob.m
  /\ BothCommitted =>
       manifest.kind = "map" /\ manifest.m = run[last.by].local_state

\* both runs ended successfully, and a file that the run which wrote first
\* uploaded is on the target and no key of the final manifest
C18_Witness ==
  /\ BothCommitted
  /\ \E p \in Procs \ {last.by} :
       \E q \in Uploaded(run[p]) :
         /\ q \in DOMAIN remoteFiles
         /\ remoteFiles[q] = localTree[p].files[q].hash
         /\ q \notin DOMAIN manifest.m

RECURSIVE Concat(_)
Concat(seqs) ==
  IF seqs = <<>> THEN <<>> ELSE Head(seqs) \o Concat(Tail(seqs))

\* the path lists of the rm commands a run has issued, in order
RmBatches(r) ==
  LET sel == SelectSeq(r.ops, LAMBDA o : o.op = "rm")
  IN  [k \in 1..Len(sel) |-> sel[k].paths]

\* C19: delete batching.  When deploy_rsync.main is past its deletions and
\* no rm command has failed, it has issued ceil(n / 50) rm commands for a
\* delete list of n paths (none for n = 0), each with at least 1 and at
\* most 50 paths, and the batches one after the other are the delete list:
\* every planned path once, in the order of the list, and no other path.
C19_DeleteBatching ==
  \A p \in Procs :
    LET r == run[p]
        n == Len(r.files_to_delete)
        batches == RmBatches(r)
    IN  (/\ r.backend = "rsync" /\ Failed(r, {"rm"}) = {}
         /\ r.pc \in {"rsync", "put_manifest", "done"}) =>
          /\ Len(batches) * batch_size >= n
          /\ (Len(batches) - 1) * batch_size < n
          /\ n = 0 => batches = <<>>
          /\ \A k \in 1..Len(batches) :
               Len(batches[k]) >= 1 /\ Len(batches[k]) <= batch_size
          /\ Concat(batches) = r.files_to_delete
          /\ NoDuplicates(r.files_to_delete)

\* 101 planned deletions done in three commands of 50, 50 and 1 paths
C19_Witness ==
  LET r == run[1]
  IN  /\ r.backend = "rsync" /\ r.pc = "rsync"
      /\ Len(r.files_to_delete) = 2 * batch_size + 1
      /\ Len(RmBatches(r)) = 3
      /\ Len(RmBatches(r)[3]) = 1
      /\ Failed(r, {"rm"}) = {}

\* C20: the manifest never refers to itself.  From a target without a
\* manifest, over any sequence of runs of either script, deploy_manifest.json
\* is no key of a run's local state, is in no upload list and in no delete
\* list, is the target of no remote delete, and is no key of a manifest a
\* run has written.
C20_NoSelfReference ==
  /\ \A p \in Procs :
       LET r == run[p]
       IN  /\ MANIFEST_FILENAME \notin DOMAIN r.local_state
           /\ MANIFEST_FILENAME \notin Range(r.files_to_upload)
           /\ MANIFEST_FILENAME \notin Range(r.files_to_delete)
           /\ MANIFEST_FILENAME \notin Deleted(r)
  /\ manifest.kind = "map" => MANIFEST_FILENAME \notin DOMAIN manifest.m
  /\ MANIFEST_FILENAME \notin everRecorded

\* a build that holds a file deploy_manifest.json has been deployed by a
\* run of deploy_smart.main that found an earlier manifest, deleted and
\* uploaded, and wrote the manifest
C20_Witness ==
  LET r == run[1]
  IN  /\ MANIFEST_FILENAME \in DOMAIN localTree[1].files
      /\ r.backend = "smart" /\ r.pc = "done" /\ Wrote(r)
      /\ r.read_blob.kind = "map"
      /\ r.files_to_delete # <<>> /\ r.files_to_upload # <<>>

\* C21: a skipped deletion is never retried.  When a run of
\* deploy_smart.main has written its manifest after the sftp.remove of a
\* path failed, the path is no key of that manifest, and in every later
\* run, the path staying out of the local tree, it is no key of the
\* manifest the run loads or writes, no delete is planned or issued for
\* it, and the remote file stays where it is with the content it had.
C21_SkippedNeverRetried ==
  CommittedWithSkip =>
    \A q \in SkippedBy(run[1]) :
      /\ q \notin DOMAIN run[1].local_state
      /\ manifest.kind = "map" => q \notin DOMAIN manifest.m
      /\ q \notin PyKeys(run[2].remote_state)
      /\ q \notin Range(run[2].files_to_delete)
      /\ q \notin Deleted(run[2])
      /\ q \in DOMAIN remoteFiles
      /\ remoteFiles[q] = run[1].pre_manifest.m[q].hash

\* a run has skipped the deletion of c.txt and written its manifest, and a
\* later run of deploy_smart.main on a rebuilt tree has removed another
\* path and written its manifest, c.txt still lying on the target
C21_Witness ==
  /\ CommittedWithSkip /\ "c.txt" \in SkippedBy(run[1])
  /\ run[2].pc = "done" /\ run[2].backend = "smart" /\ Wrote(run[2])
  /\ Removed(run[2]) # {}
  /\ localTree[2] # localTree[1]
  /\ "c.txt" \in DOMAIN remoteFiles

====
